---- MODULE Spec2Model ----
(***************************************************************************)
(* Model of src/cpp_error_parser/main.py: ImprovedCppErrorParser.          *)
(*                                                                         *)
(* A string is a sequence of tokens; the string it stands for is the       *)
(* concatenation of its tokens.  ":" and each run of digits are tokens of  *)
(* their own, " " is one blank, every other token is a word or a phrase    *)
(* that holds no colon and neither starts nor ends with a blank, and a     *)
(* keyword the code searches for ("required from", "candidate",            *)
(* "template", ...) occurs in a string only as whole tokens.  The regular  *)
(* expressions of __init__ are matched on the tokens, group by group, with *)
(* the laziness of the original.                                           *)
(*                                                                         *)
(* parse_error_text reads lines[i] once, front to back, so the text is     *)
(* revealed one line at a time: `lines` is the part of the split, stripped *)
(* text the loop has consumed so far and i = Len(lines).                   *)
(***************************************************************************)
EXTENDS Integers, Sequences, FiniteSets, TLC

\* Longest text, in lines, that is parsed.
MaxLines == 4
\* Longest message, in tokens, that classify_error_type is called with directly.
MaxMsgLen == 2
\* Longest text, in lines, that main is run on.
MaxMainLines == 2
\* Longest text, in lines, that is parsed twice.
MaxTwiceLines == 3
\* Most instantiation headers in front of a primary error line.
MaxHeaders == 3
\* Longest text, in lines, that parse_error_text alone is run on.
MaxParseLines == 3
\* Longest text, in lines, that is chosen before the loop starts.
MaxPassLines == 2
\* Longest argument, in tokens, that parse_location is called with directly.
MaxLocLen == 5

VARIABLES
    lines,                   \* lines[0..i-1] of parse_error_text, each stripped
    pc,                      \* "parse", "done", "rendered" | "classify", "classified"
    errors,                  \* the list `errors`
    current_template_chain,
    current_notes,
    current_candidates,
    pending_error,           \* <<>> for None, <<record>> otherwise
    cards,                   \* the error cards generate_html builds
    stats,                   \* the statistics generate_html computes
    cmsg,                    \* argument of a direct classify_error_type call
    ctype,                   \* its result
    caller,                  \* who calls the parser: "direct", "main", "twice", "replay"
    text,                    \* the lines of a text that is fixed in advance
    first,                   \* what an earlier call on the same text returned
    cloc_str,                \* argument of a direct parse_location call
    cloc,                    \* its result: <<>> until it returns
    status,                  \* what main returns: <<>> until it does
    printed,                 \* the messages main has printed
    written                  \* whether main has written the output file

calls == <<caller, text, first, cloc_str, cloc>>

driver == <<status, printed, written>>

vars == <<lines, pc, errors, current_template_chain, current_notes,
          current_candidates, pending_error, cards, stats, cmsg, ctype,
          calls, driver>>

(***************************************************************************)
(* Text primitives                                                         *)
(***************************************************************************)
Digits == {"0", "1", "2"}

int(t) == CASE t = "0" -> 0 [] t = "1" -> 1 [] t = "2" -> 2

Min(S) == CHOOSE x \in S : \A y \in S : x <= y

\* kw in s
In(kw, s) ==
    \E p \in 1..(Len(s) - Len(kw) + 1) : SubSeq(s, p, p + Len(kw) - 1) = kw

\* First position from p on that holds no blank: where \s* (or \s+) ends.
SkipWs(s, p) ==
    IF \E q \in p..Len(s) : s[q] # " "
    THEN Min({q \in p..Len(s) : s[q] # " "})
    ELSE Len(s) + 1

\* str.strip() of a token sequence
strip(s) ==
    LET keep == {q \in 1..Len(s) : s[q] # " "}
    IN  IF keep = {} THEN <<>>
        ELSE SubSeq(s, Min(keep), CHOOSE q \in keep : \A r \in keep : r <= q)

lower_token(t) ==
    CASE t = "Candidate" -> "candidate"
      [] t = "CANDIDATE" -> "candidate"
      [] t = "Template" -> "template"
      [] t = "Use Of Deleted Function" -> "use of deleted function"
      [] t = "AMBIGUOUS" -> "ambiguous"
      [] t = "Error" -> "error"
      [] t = "In instantiation of '" -> "in instantiation of '"
      [] t = "T" -> "t"
      [] t = "U" -> "u"
      [] t = "<T>&" -> "<t>&"
      [] OTHER -> t

\* str.lower()
lower(s) == [k \in 1..Len(s) |-> lower_token(s[k])]

escape_token(t) ==
    CASE t = "<T>&" -> "&lt;T&gt;&amp;"
      [] t = "In instantiation of '" -> "In instantiation of &#x27;"
      [] t = "' [with " -> "&#x27; [with "
      [] OTHER -> t

\* an escape that leaves its argument as it is
html_escape_raw(s) == s

\* html.escape
html_escape(s) == [k \in 1..Len(s) |-> escape_token(s[k])]

\* str.split(':')
RECURSIVE split(_)
split(s) ==
    IF \E p \in 1..Len(s) : s[p] = ":"
    THEN LET p == Min({q \in 1..Len(s) : s[q] = ":"})
         IN  <<SubSeq(s, 1, p - 1)>> \o split(SubSeq(s, p + 1, Len(s)))
    ELSE <<s>>

\* int(part) raises no ValueError
IsInt(part) == Len(strip(part)) = 1 /\ strip(part)[1] \in Digits

\* an append that overwrites the last element
append_over_last(list, x) ==
    IF list = <<>> THEN <<x>> ELSE [list EXCEPT ![Len(list)] = x]

\* an append that adds the element twice
append_twice(list, x) == list \o <<x, x>>

\* an append at the front
append_in_front(list, x) == <<x>> \o list

\* list.append(x)
append(list, x) == Append(list, x)

(***************************************************************************)
(* The compiled patterns.  A match is <<groups>>, no match is <<>>.        *)
(***************************************************************************)
\* ^(.+?):(\d+):(\d+):\s+  with group 1 = s[1..i]
LocPrefixAt(s, i) ==
    /\ i + 6 <= Len(s)
    /\ s[i + 1] = ":" /\ s[i + 2] \in Digits
    /\ s[i + 3] = ":" /\ s[i + 4] \in Digits
    /\ s[i + 5] = ":" /\ s[i + 6] = " "

\* ^(.+?):(\d+):(\d+):\s+<kw>:\s+(.+)$
SeverityMatchAt(s, i, kw) ==
    /\ LocPrefixAt(s, i)
    /\ LET q == SkipWs(s, i + 6)
       IN  /\ q + 2 <= Len(s)
           /\ s[q] = kw /\ s[q + 1] = ":" /\ s[q + 2] = " "
           /\ SkipWs(s, q + 2) <= Len(s)

SeverityMatch(s, kw) ==
    LET I == {i \in 1..Len(s) : SeverityMatchAt(s, i, kw)}
    IN  IF I = {} THEN <<>>
        ELSE LET i == Min(I)
                 q == SkipWs(s, i + 6)
             IN  << [file |-> SubSeq(s, 1, i), line_num |-> s[i + 2],
                     col |-> s[i + 4],
                     text |-> SubSeq(s, SkipWs(s, q + 2), Len(s))] >>

error_pattern(s) == SeverityMatch(s, "error")

note_pattern(s) == SeverityMatch(s, "note")

\* ^(.+?):(\d+):(\d+):\s+required from (.+)$
RequiredMatchAt(s, i) ==
    /\ LocPrefixAt(s, i)
    /\ LET q == SkipWs(s, i + 6)
       IN  /\ q + 2 <= Len(s)
           /\ s[q] = "required from" /\ s[q + 1] = " "

required_from_pattern(s) ==
    LET I == {i \in 1..Len(s) : RequiredMatchAt(s, i)}
    IN  IF I = {} THEN <<>>
        ELSE LET i == Min(I)
                 q == SkipWs(s, i + 6)
             IN  << [file |-> SubSeq(s, 1, i), line_num |-> s[i + 2],
                     col |-> s[i + 4],
                     text |-> SubSeq(s, q + 2, Len(s))] >>

\* ^(.+?):\s*In instantiation of '(.+?)' \[with (.+?)\]:\s*$
\* group 1 = s[1..i], group 2 = s[q+1..j], group 3 = s[j+2..k]
TemplateMatchAt(s, i, j, k) ==
    /\ i + 1 <= Len(s) /\ s[i + 1] = ":"
    /\ LET q == SkipWs(s, i + 2)
       IN  /\ q <= Len(s) /\ s[q] = "In instantiation of '"
           /\ q + 1 <= j /\ j + 2 <= k /\ k + 2 <= Len(s)
           /\ s[j + 1] = "' [with "
           /\ s[k + 1] = "]" /\ s[k + 2] = ":"
           /\ SkipWs(s, k + 3) = Len(s) + 1

template_instantiation_pattern(s) ==
    LET N == 1..Len(s)
        M == {m \in N \X N \X N : TemplateMatchAt(s, m[1], m[2], m[3])}
    IN  IF M = {} THEN <<>>
        ELSE LET i == Min({m[1] : m \in M})
                 j == Min({m[2] : m \in {x \in M : x[1] = i}})
                 k == Min({m[3] : m \in {x \in M : x[1] = i /\ x[2] = j}})
                 q == SkipWs(s, i + 2)
             IN  << [location_str |-> SubSeq(s, 1, i),
                     template_name |-> SubSeq(s, q + 1, j),
                     template_params |-> SubSeq(s, j + 2, k)] >>

\* ^\s*note:\s+candidate.*?:\s+(.+)$
CandidateMatchAt(s, c) ==
    LET a == SkipWs(s, 1)
    IN  /\ a + 2 <= Len(s)
        /\ s[a] = "note" /\ s[a + 1] = ":" /\ s[a + 2] = " "
        /\ LET q == SkipWs(s, a + 2)
           IN  /\ q <= Len(s) /\ s[q] = "candidate"
               /\ q < c /\ c + 1 <= Len(s)
               /\ s[c] = ":" /\ s[c + 1] = " "
               /\ SkipWs(s, c + 1) <= Len(s)

\* a candidate pattern whose group is the whole line
candidate_pattern_whole(s) ==
    IF {c \in 1..Len(s) : CandidateMatchAt(s, c)} = {} THEN <<>>
    ELSE << [text |-> s] >>

candidate_pattern(s) ==
    LET C == {c \in 1..Len(s) : CandidateMatchAt(s, c)}
    IN  IF C = {} THEN <<>>
        ELSE << [text |-> SubSeq(s, SkipWs(s, Min(C) + 1), Len(s))] >>

\* ^g?make.*?:\s*\*\*\*.*?Error\s+\d+$ ; TRUE when the line matches
make_error_pattern(s) ==
    /\ Len(s) >= 1 /\ s[1] \in {"make", "gmake"}
    /\ \E c \in 2..Len(s) :
          /\ s[c] = ":"
          /\ LET q == SkipWs(s, c + 1)
             IN  /\ q <= Len(s) /\ s[q] = "***"
                 /\ \E e \in (q + 1)..(Len(s) - 2) :
                       /\ s[e] = "Error" /\ s[e + 1] = " "
                       /\ SkipWs(s, e + 1) = Len(s)
                       /\ s[Len(s)] \in Digits

(***************************************************************************)
(* Data model                                                              *)
(***************************************************************************)
\* Optional[int]: <<>> is None, <<n>> is n
None == <<>>

ErrorLocation(file, line_num, col) ==
    [file |-> file, line |-> <<int(line_num)>>, column |-> <<int(col)>>]

UnknownLocation == [file |-> <<"unknown">>, line |-> None, column |-> None]

TemplateInstantiation(template_name, location, context, level) ==
    [template_name |-> template_name, location |-> location,
     context |-> context, level |-> level]

CompilationError(main_error, location, error_type) ==
    [main_error |-> main_error, location |-> location,
     template_chain |-> <<>>, notes |-> <<>>, candidates |-> <<>>,
     error_type |-> error_type]

\* a fallback that forgets the string
parse_location_unknown(location_str) ==
    LET parts == split(location_str)
    IN  IF Len(parts) >= 3 /\ IsInt(parts[2]) /\ IsInt(parts[3])
        THEN [file |-> parts[1],
              line |-> <<int(strip(parts[2])[1])>>,
              column |-> <<int(strip(parts[3])[1])>>]
        ELSE [file |-> <<"unknown">>, line |-> None, column |-> None]

parse_location(location_str) ==
    LET parts == split(location_str)
    IN  IF Len(parts) >= 3 /\ IsInt(parts[2]) /\ IsInt(parts[3])
        THEN [file |-> parts[1],
              line |-> <<int(strip(parts[2])[1])>>,
              column |-> <<int(strip(parts[3])[1])>>]
        ELSE [file |-> location_str, line |-> None, column |-> None]

classify_error_type(error_msg) ==
    LET error_msg_lower == lower(error_msg)
    IN  IF In(<<"use of deleted function">>, error_msg) THEN "Deleted Function"
        ELSE IF In(<<"no matching function">>, error_msg) THEN "No Matching Function"
        ELSE IF In(<<"no member named">>, error_msg) THEN "No Member"
        ELSE IF In(<<"incomplete type">>, error_msg) THEN "Incomplete Type"
        ELSE IF In(<<"static assertion failed">>, error_msg) THEN "Static Assertion Failed"
        ELSE IF In(<<"template">>, error_msg_lower) THEN "Template Error"
        ELSE IF In(<<"cannot convert">>, error_msg) THEN "Type Conversion Error"
        ELSE IF In(<<"ambiguous">>, error_msg) THEN "Ambiguous Reference"
        ELSE "Compilation Error"

(***************************************************************************)
(* Inputs                                                                  *)
(***************************************************************************)
Loc == <<"a.cpp", ":", "1", ":", "2", ":", " ">>

LineBlank == <<>>
LineMake ==
    <<"make", ":", " ", "***", " ", "note", ":", " ", "see", " ", "Error", " ",
      "2">>
LineHeader ==
    <<"a.cpp", ":", "1", ":", "2", ":", " ", "In instantiation of '", "f",
      "' [with ", "<T>&", "]", ":">>
LineRequired == Loc \o <<"required from", " ", "here">>
LineRequiredLoose ==
    <<"required from", " ", "here", " ", "error", ":", " ", "<T>&">>
LineError == Loc \o <<"error", ":", " ", "no matching function", " ", "f">>
LineError2 ==
    <<"<T>&", ":", "2", ":", "0", ":", " ", "error", ":", " ", "ambiguous",
      " ", "<T>&", " ", "note", ":", " ", "x">>
LineNote == Loc \o <<"note", ":", " ", "void f()">>
LineNoteCandidate == Loc \o <<"note", ":", " ", "candidate", ":", " ", "<T>&">>
LineNoteCandidateUpper ==
    Loc \o <<"note", ":", " ", "Candidate", ":", " ", "void g()">>
LineNoteError == Loc \o <<"note", ":", " ", "see", " ", "error", ":", " ", "x">>
LineCandidateLoose ==
    <<"note", ":", " ", "candidate", " ", "1", ":", " ", "void f()">>
LineNoteLoose == <<"note", ":", " ", "<T>&">>
LineOther == <<"In file included from", " ", "a.cpp">>

\* The stripped lines a text is made of.
LineSet ==
    {LineBlank, LineMake, LineHeader, LineRequired, LineRequiredLoose,
     LineError, LineError2, LineNote, LineNoteCandidate,
     LineNoteCandidateUpper, LineNoteError, LineCandidateLoose, LineNoteLoose,
     LineOther}

\* A second header, of texts that are fixed in advance.
LineHeader2 ==
    <<"b.cpp", ":", " ", "In instantiation of '", "g", "' [with ", "U", "]",
      ":">>

AllLines == LineSet \cup {LineHeader2}

MsgTokens ==
    {"use of deleted function", "no matching function", "no member named",
     "incomplete type", "static assertion failed", "template",
     "cannot convert", "ambiguous", "Use Of Deleted Function", "Template",
     "AMBIGUOUS", "x"}

\* The messages classify_error_type is called with directly.
Messages == UNION {[1..n -> MsgTokens] : n \in 1..MaxMsgLen}

(***************************************************************************)
(* parse_error_text                                                        *)
(***************************************************************************)
\* a chain that tests 'note:' before 'error:'
BranchNoteFirst(line) ==
    IF make_error_pattern(line) THEN "noise"
    ELSE IF line = <<>> THEN "blank"
    ELSE IF template_instantiation_pattern(line) # <<>> THEN "template"
    ELSE IF In(<<"required from">>, line) THEN "required"
    ELSE IF In(<<"note", ":">>, line) THEN "note"
    ELSE IF In(<<"error", ":">>, line) THEN "error"
    ELSE "other"

\* a chain that takes a line of no branch as a blank line
BranchOtherCloses(line) ==
    IF make_error_pattern(line) THEN "noise"
    ELSE IF template_instantiation_pattern(line) # <<>> THEN "template"
    ELSE IF In(<<"required from">>, line) THEN "required"
    ELSE IF In(<<"error", ":">>, line) THEN "error"
    ELSE IF In(<<"note", ":">>, line) THEN "note"
    ELSE "blank"

\* a chain that never skips make's lines
BranchWithoutNoise(line) ==
    IF line = <<>> THEN "blank"
    ELSE IF template_instantiation_pattern(line) # <<>> THEN "template"
    ELSE IF In(<<"required from">>, line) THEN "required"
    ELSE IF In(<<"error", ":">>, line) THEN "error"
    ELSE IF In(<<"note", ":">>, line) THEN "note"
    ELSE "other"

\* The branch of the loop body's if / elif chain that a stripped line takes.
Branch(line) ==
    IF make_error_pattern(line) THEN "noise"
    ELSE IF line = <<>> THEN "blank"
    ELSE IF template_instantiation_pattern(line) # <<>> THEN "template"
    ELSE IF In(<<"required from">>, line) THEN "required"
    ELSE IF In(<<"error", ":">>, line) THEN "error"
    ELSE IF In(<<"note", ":">>, line) THEN "note"
    ELSE "other"

\* The patterns are compiled once, in __init__; what each yields on each
\* line, and the branch the line takes, is tabulated once as well.
BranchOf == [l \in AllLines |-> Branch(l)]

MatchOf ==
    [l \in AllLines |->
        [template |-> template_instantiation_pattern(l),
         required |-> required_from_pattern(l),
         error |-> error_pattern(l),
         note |-> note_pattern(l),
         candidate |-> candidate_pattern(l)]]

\* a chain numbered from 1
NextLevelFromOne(chain) == Len(chain) + 1

\* level=len(current_template_chain)
NextLevel(chain) == Len(chain)

\* a blank-line flush that forgets the buffered candidates
ClosedOnBlankWithoutCandidates(p, chain, notes, candidates) ==
    [p EXCEPT !.template_chain = chain, !.notes = notes]

\* pending_error with the buffers attached, at a blank line
ClosedOnBlank(p, chain, notes, candidates) ==
    [p EXCEPT !.template_chain = chain, !.notes = notes,
              !.candidates = candidates]

\* the same at a primary error line
ClosedOnError(p, chain, notes, candidates) ==
    [p EXCEPT !.template_chain = chain, !.notes = notes,
              !.candidates = candidates]

\* a flush after the loop that forgets the buffered notes
ClosedAtEndWithoutNotes(p, chain, notes, candidates) ==
    [p EXCEPT !.template_chain = chain, !.candidates = candidates]

\* a flush after the loop that forgets the buffered chain
ClosedAtEndWithoutChain(p, chain, notes, candidates) ==
    [p EXCEPT !.notes = notes, !.candidates = candidates]

\* the same after the loop
ClosedAtEnd(p, chain, notes, candidates) ==
    [p EXCEPT !.template_chain = chain, !.notes = notes,
              !.candidates = candidates]

\* error_text.strip(): a text of several lines starts and ends with a
\* non-blank line; only the text that is all whitespace is the one line ''.
\* A text fixed in advance is read as it is.
TextBound ==
    CASE caller = "main" -> MaxMainLines
      [] caller = "twice" -> MaxTwiceLines
      [] caller = "parse" -> MaxParseLines
      [] OTHER -> MaxLines

\* a step of the index that passes over the line after l
ReadsSkipping(l) ==
    /\ pc = "parse"
    /\ Len(lines) < Len(text)
    /\ l = text[Len(lines) + 1]
    /\ lines' = IF Len(lines) + 2 <= Len(text)
                THEN lines \o SubSeq(text, Len(lines) + 1, Len(lines) + 2)
                ELSE Append(lines, l)

Reads(l) ==
    /\ pc = "parse"
    /\ IF caller = "replay"
       THEN Len(lines) < Len(text) /\ l = text[Len(lines) + 1]
       ELSE /\ Len(lines) < TextBound
            /\ l \in LineSet
            /\ IF lines = <<>> THEN TRUE ELSE lines[1] # <<>>
    /\ lines' = Append(lines, l)

NoiseLine ==
    \E l \in AllLines :
        /\ Reads(l)
        /\ BranchOf[l] = "noise"
        /\ UNCHANGED <<pc, errors, current_template_chain, current_notes,
                       current_candidates, pending_error, cards, cmsg, ctype,
                       stats, calls, driver>>

BlankLine ==
    \E l \in AllLines :
        /\ Reads(l)
        /\ BranchOf[l] = "blank"
        /\ IF pending_error # None
           THEN /\ errors' = append(errors,
                        ClosedOnBlank(pending_error[1], current_template_chain,
                                      current_notes, current_candidates))
                /\ pending_error' = None
                /\ current_template_chain' = <<>>
                /\ current_notes' = <<>>
                /\ current_candidates' = <<>>
           ELSE UNCHANGED <<errors, pending_error, current_template_chain,
                            current_notes, current_candidates>>
        /\ UNCHANGED <<pc, cards, cmsg, ctype,
                       stats, calls, driver>>

TemplateLine ==
    \E l \in AllLines :
        /\ Reads(l)
        /\ BranchOf[l] = "template"
        /\ LET m == MatchOf[l].template[1]
           IN  current_template_chain' = append(current_template_chain,
                   TemplateInstantiation(m.template_name,
                                         parse_location(m.location_str),
                                         m.template_params,
                                         NextLevel(current_template_chain)))
        /\ UNCHANGED <<pc, errors, current_notes, current_candidates,
                       pending_error, cards, cmsg, ctype,
                       stats, calls, driver>>

\* the frame of a line that matches required_from_pattern
RequiredFrame(m, chain) ==
    TemplateInstantiation(<<"required from", " ">> \o m.text,
                          ErrorLocation(m.file, m.line_num, m.col),
                          <<>>, NextLevel(chain))

\* a fallback frame located by parse_location(line)
OtherRequiredFrameParsed(line, chain) ==
    TemplateInstantiation(line, parse_location(line), <<>>, NextLevel(chain))

\* the frame of any other line that contains "required from"
OtherRequiredFrame(line, chain) ==
    TemplateInstantiation(line, UnknownLocation, <<>>, NextLevel(chain))

RequiredFromLine ==
    \E l \in AllLines :
        /\ Reads(l)
        /\ BranchOf[l] = "required"
        /\ LET required_match == MatchOf[l].required
           IN  current_template_chain' = append(current_template_chain,
                   IF required_match # <<>>
                   THEN RequiredFrame(required_match[1], current_template_chain)
                   ELSE OtherRequiredFrame(l, current_template_chain))
        /\ UNCHANGED <<pc, errors, current_notes, current_candidates,
                       pending_error, cards, cmsg, ctype,
                       stats, calls, driver>>

\* a best-effort record for a line that holds "error:" and fails error_pattern
UnmatchedErrorOpens(line, pending) ==
    << CompilationError(line, UnknownLocation, classify_error_type(line)) >>

\* pending_error after a line that holds "error:" and fails error_pattern
UnmatchedError(line, pending) == pending

ErrorLine ==
    \E l \in AllLines :
        /\ Reads(l)
        /\ BranchOf[l] = "error"
        /\ LET error_match == MatchOf[l].error
           IN  IF error_match # <<>>
               THEN LET m == error_match[1]
                    IN  /\ IF pending_error # None
                           THEN /\ errors' = append(errors,
                                        ClosedOnError(pending_error[1],
                                                      current_template_chain,
                                                      current_notes,
                                                      current_candidates))
                                /\ current_notes' = <<>>
                                /\ current_candidates' = <<>>
                           ELSE UNCHANGED <<errors, current_notes,
                                            current_candidates>>
                        /\ pending_error' =
                               << CompilationError(m.text,
                                      ErrorLocation(m.file, m.line_num, m.col),
                                      classify_error_type(m.text)) >>
               ELSE /\ pending_error' = UnmatchedError(l, pending_error)
                    /\ UNCHANGED <<errors, current_notes, current_candidates>>
        /\ UNCHANGED <<pc, current_template_chain, cards, cmsg, ctype,
                       stats, calls, driver>>

\* a test that takes no note as a candidate
IsCandidateNever(note_msg) == FALSE

\* "candidate" in note_msg
IsCandidate(note_msg) == In(<<"candidate">>, note_msg)

NoteLine ==
    \E l \in AllLines :
        /\ Reads(l)
        /\ BranchOf[l] = "note"
        /\ LET note_match == MatchOf[l].note
               candidate_match == MatchOf[l].candidate
           IN  IF note_match # <<>>
               THEN LET m == note_match[1]
                    IN  /\ current_notes' = append(current_notes,
                               <<m.text, ErrorLocation(m.file, m.line_num, m.col)>>)
                        /\ current_candidates' =
                               IF IsCandidate(m.text)
                               THEN append(current_candidates, m.text)
                               ELSE current_candidates
               ELSE IF candidate_match # <<>>
               THEN /\ current_candidates' =
                           append(current_candidates, candidate_match[1].text)
                    /\ UNCHANGED current_notes
               ELSE /\ current_notes' = append(current_notes, <<l, UnknownLocation>>)
                    /\ UNCHANGED current_candidates
        /\ UNCHANGED <<pc, errors, current_template_chain, pending_error,
                       cards, cmsg, ctype,
                       stats, calls, driver>>

OtherLine ==
    \E l \in AllLines :
        /\ Reads(l)
        /\ BranchOf[l] = "other"
        /\ UNCHANGED <<pc, errors, current_template_chain, current_notes,
                       current_candidates, pending_error, cards, cmsg, ctype,
                       stats, calls, driver>>

\* The loop ends: i = len(lines).  split() yields at least one line.
EndOfInput ==
    /\ pc = "parse"
    /\ Len(lines) >= 1
    /\ IF caller = "replay" THEN Len(lines) = Len(text)
       ELSE IF Len(lines) = 1 THEN TRUE ELSE lines[Len(lines)] # <<>>
    /\ pc' = "done"
    /\ errors' = IF pending_error # None
                 THEN append(errors,
                          ClosedAtEnd(pending_error[1], current_template_chain,
                                      current_notes, current_candidates))
                 ELSE errors
    /\ UNCHANGED <<lines, current_template_chain, current_notes,
                   current_candidates, pending_error, cards, cmsg, ctype,
                       stats, calls, driver>>

(***************************************************************************)
(* generate_html                                                           *)
(***************************************************************************)
RECURSIVE SelectSeq2(_, _)
\* the messages of the notes that the notes section shows
SelectSeq2(notes, k) ==
    IF k > Len(notes) THEN <<>>
    ELSE (IF ~In(<<"candidate">>, lower(notes[k][1]))
          THEN <<html_escape(notes[k][1])>> ELSE <<>>)
         \o SelectSeq2(notes, k + 1)

note_items(error) == SelectSeq2(error.notes, 1)

\* f"{location.line or '?'}": None and 0 both print as "?"
or_question(n) == IF n = None \/ n = <<0>> THEN "?" ELSE ToString(n[1])

\* f"{html.escape(location.file)}:{location.line or '?'}:{location.column or '?'}"
location_text(location) ==
    html_escape(location.file)
    \o <<":", or_question(location.line), ":", or_question(location.column)>>

RECURSIVE NoteLocations(_, _)
NoteLocations(notes, k) ==
    IF k > Len(notes) THEN <<>>
    ELSE (IF ~In(<<"candidate">>, lower(notes[k][1]))
          THEN <<location_text(notes[k][2])>> ELSE <<>>)
         \o NoteLocations(notes, k + 1)

note_locations(error) == NoteLocations(error.notes, 1)

candidate_items(error) ==
    [k \in 1..Len(error.candidates) |-> html_escape(error.candidates[k])]

template_items(error) ==
    [k \in 1..Len(error.template_chain) |->
        LET template == error.template_chain[k]
        IN  [margin_left |-> template.level * 20,
             template_name |-> html_escape(template.template_name),
             template_location |-> location_text(template.location),
             template_context |-> IF template.context # <<>>
                                  THEN html_escape(template.context)
                                  ELSE <<>>]]

_generate_error_card(error) ==
    [error_type |-> error.error_type,
     error_message |-> html_escape(error.main_error),
     error_location |-> location_text(error.location),
     template_items |-> template_items(error),
     note_items |-> note_items(error),
     note_locations |-> note_locations(error),
     candidate_items |-> candidate_items(error)]

error_count(errs) == Len(errs)

\* a count of all the records
template_errors_all(errs) == Len(errs)

template_errors(errs) ==
    Len(SelectSeq(errs, LAMBDA e : e.template_chain # <<>>))

RECURSIVE sum_chain_lengths(_, _)
sum_chain_lengths(errs, k) ==
    IF k > Len(errs) THEN 0
    ELSE Len(errs[k].template_chain) + sum_chain_lengths(errs, k + 1)

\* The quotient as the pair <<numerator, denominator>>; the literal 0 of
\* the empty case is <<0, 1>>.
avg_chain_length(errs) ==
    IF errs # <<>> THEN <<sum_chain_lengths(errs, 1), Len(errs)>>
    ELSE <<0, 1>>

\* The values generate_html puts into the document.
Document(errs) ==
    [error_count |-> error_count(errs),
     template_errors |-> template_errors(errs),
     avg_chain_length |-> avg_chain_length(errs)]

ErrorCards(errs) == [k \in 1..Len(errs) |-> _generate_error_card(errs[k])]

GenerateHtml ==
    /\ pc = "done"
    /\ caller # "main"
    /\ pc' = "rendered"
    /\ cards' = ErrorCards(errors)
    /\ stats' = <<Document(errors)>>
    /\ UNCHANGED <<lines, errors, current_template_chain, current_notes,
                   current_candidates, pending_error, cmsg, ctype, calls,
                   driver>>

(***************************************************************************)
(* main                                                                    *)
(***************************************************************************)
\* The values of main's return statements.
StatusOk == 0

StatusNotFound == 1

\* the status of success, returned where no record was found
StatusNoErrorsAsOk == StatusOk

StatusNoErrors == 1

StatusFailed == 1

NotFoundMessage == "Error: File not found"

NoErrorsMessage == "No compilation errors found in the input"

FailedMessage == "Error processing compilation output"

ReportMessage == "Generated HTML report"

\* sys.argv names a file that does not exist
MainFileNotFound ==
    /\ caller = "main"
    /\ pc = "start"
    /\ printed' = Append(printed, NotFoundMessage)
    /\ status' = <<StatusNotFound>>
    /\ pc' = "returned"
    /\ UNCHANGED <<lines, errors, current_template_chain, current_notes,
                   current_candidates, pending_error, cards, stats, cmsg,
                   ctype, calls, written>>

\* open(input_file) or f.read() or sys.stdin.read() raises: the statements
\* stand before the try, so the exception leaves main.
MainReadRaises ==
    /\ caller = "main"
    /\ pc = "start"
    /\ pc' = "raised"
    /\ UNCHANGED <<lines, errors, current_template_chain, current_notes,
                   current_candidates, pending_error, cards, stats, cmsg,
                   ctype, calls, driver>>

\* error_text is read; parse_error_text starts on it
MainReads ==
    /\ caller = "main"
    /\ pc = "start"
    /\ pc' = "parse"
    /\ UNCHANGED <<lines, errors, current_template_chain, current_notes,
                   current_candidates, pending_error, cards, stats, cmsg,
                   ctype, calls, driver>>

\* if not errors
MainNoErrors ==
    /\ caller = "main"
    /\ pc = "done"
    /\ errors = <<>>
    /\ printed' = Append(printed, NoErrorsMessage)
    /\ status' = <<StatusNoErrors>>
    /\ pc' = "returned"
    /\ UNCHANGED <<lines, errors, current_template_chain, current_notes,
                   current_candidates, pending_error, cards, stats, cmsg,
                   ctype, calls, written>>

\* html_output = parser.generate_html(errors)
MainGenerateHtml ==
    /\ caller = "main"
    /\ pc = "done"
    /\ errors # <<>>
    /\ pc' = "rendered"
    /\ cards' = ErrorCards(errors)
    /\ stats' = <<Document(errors)>>
    /\ UNCHANGED <<lines, errors, current_template_chain, current_notes,
                   current_candidates, pending_error, cmsg, ctype, calls,
                   driver>>

\* the output file is written, the summary printed
MainWrites ==
    /\ caller = "main"
    /\ pc = "rendered"
    /\ written' = TRUE
    /\ printed' = Append(printed, ReportMessage)
    /\ status' = <<StatusOk>>
    /\ pc' = "returned"
    /\ UNCHANGED <<lines, errors, current_template_chain, current_notes,
                   current_candidates, pending_error, cards, stats, cmsg,
                   ctype, calls>>

\* except Exception: a statement of the try block raises, in parsing, in
\* rendering, or in opening or writing the output file
MainCatches ==
    /\ caller = "main"
    /\ IF pc = "done" THEN errors # <<>> ELSE pc \in {"parse", "rendered"}
    /\ printed' = Append(printed, FailedMessage)
    /\ status' = <<StatusFailed>>
    /\ pc' = "returned"
    /\ UNCHANGED <<lines, errors, current_template_chain, current_notes,
                   current_candidates, pending_error, cards, stats, cmsg,
                   ctype, calls, written>>

(***************************************************************************)
(* Calls on a text that is fixed in advance                                *)
(***************************************************************************)
\* a second call that finds the chain buffer of the call before
ParseAgainKeepingChain ==
    /\ caller = "twice"
    /\ pc = "done"
    /\ first' = <<errors>>
    /\ text' = lines
    /\ caller' = "replay"
    /\ pc' = "parse"
    /\ lines' = <<>>
    /\ errors' = <<>>
    /\ current_notes' = <<>>
    /\ current_candidates' = <<>>
    /\ pending_error' = None
    /\ UNCHANGED <<current_template_chain, cards, stats, cmsg, ctype,
                   cloc_str, cloc, driver>>

\* parse_error_text has returned; it is called again on the same text and
\* starts with fresh locals.
ParseAgain ==
    /\ caller = "twice"
    /\ pc = "done"
    /\ first' = <<errors>>
    /\ text' = lines
    /\ caller' = "replay"
    /\ pc' = "parse"
    /\ lines' = <<>>
    /\ errors' = <<>>
    /\ current_template_chain' = <<>>
    /\ current_notes' = <<>>
    /\ current_candidates' = <<>>
    /\ pending_error' = None
    /\ UNCHANGED <<cards, stats, cmsg, ctype, cloc_str, cloc, driver>>

RECURSIVE SeqsOf(_, _)
\* The sequences of n elements of S.
SeqsOf(S, n) ==
    IF n = 0 THEN {<<>>}
    ELSE {Append(q, x) : q \in SeqsOf(S, n - 1), x \in S}

PrimaryLines == {LineError, LineError2}

HeaderLines == {LineHeader, LineHeader2}

\* n headers, then a primary error line
HeaderTexts ==
    UNION {{Append(h, e) : h \in SeqsOf(HeaderLines, n), e \in PrimaryLines} :
           n \in 1..MaxHeaders}

\* The strict note lines that reach the note branch; the last holds
\* "candidate".
PlainNoteLines == {LineNote, LineNoteCandidateUpper}

\* a primary error line, two strict notes of which one holds "candidate", a
\* blank line, a noise line
NoteTexts ==
    UNION {{<<e, n, LineNoteCandidate, LineBlank, LineMake>>,
            <<e, LineNoteCandidate, n, LineBlank, LineMake>>} :
           e \in PrimaryLines, n \in PlainNoteLines}

ScenarioTexts == HeaderTexts \cup NoteTexts

\* error_text.strip().split('\n'): one line, or several of which the first
\* and the last are not blank
PassTexts ==
    UNION {{t \in SeqsOf(LineSet, n) :
               n > 1 => (t[1] # <<>> /\ t[n] # <<>>)} : n \in 1..MaxPassLines}

LocTokens == {"a.cpp", ":", " ", "1", "x"}

\* The strings parse_location is called with: a run of digits is one token.
LocationStrings ==
    UNION {{t \in SeqsOf(LocTokens, n) :
               \A k \in 1..(n - 1) : ~(t[k] \in Digits /\ t[k + 1] \in Digits)} :
           n \in 0..MaxLocLen}

(***************************************************************************)
(* Specifications                                                          *)
(***************************************************************************)
Init ==
    /\ lines = <<>>
    /\ pc = "parse"
    /\ errors = <<>>
    /\ current_template_chain = <<>>
    /\ current_notes = <<>>
    /\ current_candidates = <<>>
    /\ pending_error = None
    /\ cards = <<>>
    /\ stats = None
    /\ cmsg = <<>>
    /\ ctype = ""
    /\ caller = "direct"
    /\ text = <<>>
    /\ first = None
    /\ cloc_str = <<>>
    /\ cloc = None
    /\ status = None
    /\ printed = <<>>
    /\ written = FALSE

Next ==
    \/ NoiseLine
    \/ BlankLine
    \/ TemplateLine
    \/ RequiredFromLine
    \/ ErrorLine
    \/ NoteLine
    \/ OtherLine
    \/ EndOfInput
    \/ GenerateHtml

Spec == Init /\ [][Next]_vars

\* classify_error_type called on its own
InitClassify ==
    /\ lines = <<>>
    /\ pc = "classify"
    /\ errors = <<>>
    /\ current_template_chain = <<>>
    /\ current_notes = <<>>
    /\ current_candidates = <<>>
    /\ pending_error = None
    /\ cards = <<>>
    /\ stats = None
    /\ cmsg \in Messages
    /\ ctype = ""
    /\ caller = "direct"
    /\ text = <<>>
    /\ first = None
    /\ cloc_str = <<>>
    /\ cloc = None
    /\ status = None
    /\ printed = <<>>
    /\ written = FALSE

Classify ==
    /\ pc = "classify"
    /\ pc' = "classified"
    /\ ctype' = classify_error_type(cmsg)
    /\ UNCHANGED <<lines, errors, current_template_chain, current_notes,
                   current_candidates, pending_error, cards, stats, cmsg,
                   calls, driver>>

NextClassify == Classify

SpecClassify == InitClassify /\ [][NextClassify]_vars

\* main run on a text
InitMain ==
    /\ lines = <<>>
    /\ pc = "start"
    /\ errors = <<>>
    /\ current_template_chain = <<>>
    /\ current_notes = <<>>
    /\ current_candidates = <<>>
    /\ pending_error = None
    /\ cards = <<>>
    /\ stats = None
    /\ cmsg = <<>>
    /\ ctype = ""
    /\ caller = "main"
    /\ text = <<>>
    /\ first = None
    /\ cloc_str = <<>>
    /\ cloc = None
    /\ status = None
    /\ printed = <<>>
    /\ written = FALSE

NextMain ==
    \/ MainFileNotFound
    \/ MainReadRaises
    \/ MainReads
    \/ NoiseLine
    \/ BlankLine
    \/ TemplateLine
    \/ RequiredFromLine
    \/ ErrorLine
    \/ NoteLine
    \/ OtherLine
    \/ EndOfInput
    \/ MainNoErrors
    \/ MainGenerateHtml
    \/ MainWrites
    \/ MainCatches

SpecMain == InitMain /\ [][NextMain]_vars

\* parse_error_text called twice on one text
InitTwice ==
    /\ lines = <<>>
    /\ pc = "parse"
    /\ errors = <<>>
    /\ current_template_chain = <<>>
    /\ current_notes = <<>>
    /\ current_candidates = <<>>
    /\ pending_error = None
    /\ cards = <<>>
    /\ stats = None
    /\ cmsg = <<>>
    /\ ctype = ""
    /\ caller = "twice"
    /\ text = <<>>
    /\ first = None
    /\ cloc_str = <<>>
    /\ cloc = None
    /\ status = None
    /\ printed = <<>>
    /\ written = FALSE

NextTwice ==
    \/ NoiseLine
    \/ BlankLine
    \/ TemplateLine
    \/ RequiredFromLine
    \/ ErrorLine
    \/ NoteLine
    \/ OtherLine
    \/ EndOfInput
    \/ ParseAgain

SpecTwice == InitTwice /\ [][NextTwice]_vars

\* parse_error_text and generate_html on a text of ScenarioTexts
InitScenario ==
    /\ lines = <<>>
    /\ pc = "parse"
    /\ errors = <<>>
    /\ current_template_chain = <<>>
    /\ current_notes = <<>>
    /\ current_candidates = <<>>
    /\ pending_error = None
    /\ cards = <<>>
    /\ stats = None
    /\ cmsg = <<>>
    /\ ctype = ""
    /\ caller = "replay"
    /\ text \in ScenarioTexts
    /\ first = None
    /\ cloc_str = <<>>
    /\ cloc = None
    /\ status = None
    /\ printed = <<>>
    /\ written = FALSE

\* The texts hold no line of the other two branches.
NextScenario ==
    \/ NoiseLine
    \/ BlankLine
    \/ TemplateLine
    \/ ErrorLine
    \/ NoteLine
    \/ EndOfInput
    \/ GenerateHtml

SpecScenario == InitScenario /\ [][NextScenario]_vars

\* parse_error_text alone, on a text that is read as the loop goes
InitParse ==
    /\ lines = <<>>
    /\ pc = "parse"
    /\ errors = <<>>
    /\ current_template_chain = <<>>
    /\ current_notes = <<>>
    /\ current_candidates = <<>>
    /\ pending_error = None
    /\ cards = <<>>
    /\ stats = None
    /\ cmsg = <<>>
    /\ ctype = ""
    /\ caller = "parse"
    /\ text = <<>>
    /\ first = None
    /\ cloc_str = <<>>
    /\ cloc = None
    /\ status = None
    /\ printed = <<>>
    /\ written = FALSE

NextParse ==
    \/ NoiseLine
    \/ BlankLine
    \/ TemplateLine
    \/ RequiredFromLine
    \/ ErrorLine
    \/ NoteLine
    \/ OtherLine
    \/ EndOfInput

SpecParse == InitParse /\ [][NextParse]_vars

\* parse_error_text on a text that is chosen before the loop starts
InitPass ==
    /\ lines = <<>>
    /\ pc = "parse"
    /\ errors = <<>>
    /\ current_template_chain = <<>>
    /\ current_notes = <<>>
    /\ current_candidates = <<>>
    /\ pending_error = None
    /\ cards = <<>>
    /\ stats = None
    /\ cmsg = <<>>
    /\ ctype = ""
    /\ caller = "replay"
    /\ text \in PassTexts
    /\ first = None
    /\ cloc_str = <<>>
    /\ cloc = None
    /\ status = None
    /\ printed = <<>>
    /\ written = FALSE

NextPass ==
    \/ NoiseLine
    \/ BlankLine
    \/ TemplateLine
    \/ RequiredFromLine
    \/ ErrorLine
    \/ NoteLine
    \/ OtherLine
    \/ EndOfInput

\* The loop body runs whenever i < len(lines); the flush follows the loop.
SpecPass == InitPass /\ [][NextPass]_vars /\ WF_vars(NextPass)

\* parse_location called on its own
InitLocation ==
    /\ lines = <<>>
    /\ pc = "locate"
    /\ errors = <<>>
    /\ current_template_chain = <<>>
    /\ current_notes = <<>>
    /\ current_candidates = <<>>
    /\ pending_error = None
    /\ cards = <<>>
    /\ stats = None
    /\ cmsg = <<>>
    /\ ctype = ""
    /\ caller = "direct"
    /\ text = <<>>
    /\ first = None
    /\ cloc_str \in LocationStrings
    /\ cloc = None
    /\ status = None
    /\ printed = <<>>
    /\ written = FALSE

ParseLocation ==
    /\ pc = "locate"
    /\ pc' = "located"
    /\ cloc' = <<parse_location(cloc_str)>>
    /\ UNCHANGED <<lines, errors, current_template_chain, current_notes,
                   current_candidates, pending_error, cards, stats, cmsg,
                   ctype, caller, text, first, cloc_str, driver>>

NextLocation == ParseLocation

SpecLocation == InitLocation /\ [][NextLocation]_vars

(***************************************************************************)
(* Properties                                                              *)
(***************************************************************************)
\* The loop has just consumed line l.
Consumed(l) == lines' = Append(lines, l)

\* l is recognized as a primary error line: it reaches the "error:" branch
\* and matches error_pattern there.
IsPrimary(l) == BranchOf[l] = "error" /\ MatchOf[l].error # <<>>

LevelsAreIndexes(chain) == \A k \in 1..Len(chain) : chain[k].level = k - 1

\* C1: in every record of the output, the level of each chain frame is its
\* index in the chain, from 0 and without gaps, whether the record was closed
\* by a blank line, by the next primary error line or at the end of the input.
C1_ChainLevelIsIndex ==
    \A n \in 1..Len(errors) : LevelsAreIndexes(errors[n].template_chain)

\* A record with a chain of two frames or more that a following primary error
\* line closed (the text holds no blank line).
C1_Witness ==
    /\ pc = "done"
    /\ Len(errors) >= 2
    /\ Len(errors[1].template_chain) >= 2
    /\ \A k \in 1..Len(lines) : lines[k] # <<>>

\* C2: when a primary error line is recognized while a record is in progress,
\* the record is closed and the chain, notes and candidates buffers are all
\* empty when the new record is opened.
C2_BuffersEmptyAtOpen ==
    [][\A l \in LineSet :
          (Consumed(l) /\ IsPrimary(l) /\ pending_error # None)
          => /\ Len(errors') = Len(errors) + 1
             /\ current_template_chain' = <<>>
             /\ current_notes' = <<>>
             /\ current_candidates' = <<>>]_vars

\* C3: when the input ends, the output is what a blank line would have made
\* it: a record in progress is appended with the buffered chain, notes and
\* candidates; and a text that ends with a primary error line yields the
\* record of that line as the last one.
C3_EndOfInputFlushes ==
    [][(pc = "parse" /\ pc' = "done")
       => /\ errors' =
                IF pending_error # None
                THEN Append(errors,
                         ClosedOnBlank(pending_error[1], current_template_chain,
                                       current_notes, current_candidates))
                ELSE errors
          /\ IsPrimary(lines[Len(lines)])
             => /\ errors' # <<>>
                /\ errors'[Len(errors')].main_error =
                       MatchOf[lines[Len(lines)]].error[1].text
                /\ errors'[Len(errors')].location.file =
                       MatchOf[lines[Len(lines)]].error[1].file]_vars

\* The input ended with a record in progress and something in each buffer.
C3_Witness ==
    /\ pc = "done"
    /\ pending_error # None
    /\ current_template_chain # <<>>
    /\ current_notes # <<>>
    /\ current_candidates # <<>>
    /\ errors[Len(errors)].notes = current_notes

\* C4: the category of a message does not depend on the letter case of the
\* message: two messages that are equal up to case get the same category.
C4_CaseInsensitive ==
    pc = "classified"
    => \A m \in Messages : lower(m) = lower(cmsg) => classify_error_type(m) = ctype

Keywords ==
    << <<"use of deleted function">>, <<"no matching function">>,
       <<"no member named">>, <<"incomplete type">>,
       <<"static assertion failed">>, <<"template">>, <<"cannot convert">>,
       <<"ambiguous">> >>

Categories ==
    << "Deleted Function", "No Matching Function", "No Member",
       "Incomplete Type", "Static Assertion Failed", "Template Error",
       "Type Conversion Error", "Ambiguous Reference" >>

\* The category of the first keyword, in the fixed order, that occurs in the
\* message whatever its letter case; the generic category when none occurs.
FirstKeywordCategory(msg) ==
    LET hits == {k \in 1..Len(Keywords) : In(Keywords[k], lower(msg))}
    IN  IF hits = {} THEN "Compilation Error" ELSE Categories[Min(hits)]

\* C5: classify_error_type returns the category of the first keyword, in the
\* fixed priority order, that occurs in the message, and the generic
\* Compilation Error when no keyword occurs.
C5_FirstKeywordWins ==
    pc = "classified" => ctype = FirstKeywordCategory(cmsg)

\* C6: no rendered card shows the same string both as a note message of its
\* notes section and as an entry of its candidates section.
C6_NoStringInBothSections ==
    pc = "rendered"
    => \A n \in 1..Len(cards) :
          \A a \in 1..Len(cards[n].note_items) :
             \A b \in 1..Len(cards[n].candidate_items) :
                cards[n].note_items[a] # cards[n].candidate_items[b]

\* C7: a line of the strict note shape that is not noise, not an
\* instantiation header, holds no "required from" and is not of the strict
\* primary error shape appends exactly one entry, its message with its parsed
\* location, to the buffered notes, whatever else the message holds.
C7_StrictNoteAppends ==
    [][\A l \in LineSet :
          (/\ Consumed(l)
           /\ MatchOf[l].note # <<>>
           /\ ~make_error_pattern(l)
           /\ MatchOf[l].template = <<>>
           /\ ~In(<<"required from">>, l)
           /\ MatchOf[l].error = <<>>)
          => LET m == MatchOf[l].note[1]
             IN  current_notes' = Append(current_notes,
                     <<m.text, ErrorLocation(m.file, m.line_num, m.col)>>)]_vars

\* C8: a strict-form note line appends its raw message to the buffered
\* candidates exactly when the message holds "candidate" in any letter case.
C8_CandidateAnyCase ==
    [][\A l \in LineSet :
          (Consumed(l) /\ BranchOf[l] = "note" /\ MatchOf[l].note # <<>>)
          => LET m == MatchOf[l].note[1]
             IN  current_candidates' =
                     IF In(<<"candidate">>, lower(m.text))
                     THEN Append(current_candidates, m.text)
                     ELSE current_candidates]_vars

\* C9: a line that is not blank, not noise and not an instantiation header
\* and that holds "required from" appends exactly one frame to the chain
\* buffer: label "required from " + context, the parsed location and an empty
\* context when it matches the strict form; the whole line as label, the
\* location "unknown" without line and column and an empty context otherwise.
C9_RequiredFromAppendsFrame ==
    [][\A l \in LineSet :
          (/\ Consumed(l)
           /\ l # <<>>
           /\ ~make_error_pattern(l)
           /\ MatchOf[l].template = <<>>
           /\ In(<<"required from">>, l))
          => /\ Len(current_template_chain') = Len(current_template_chain) + 1
             /\ SubSeq(current_template_chain', 1, Len(current_template_chain))
                    = current_template_chain
             /\ LET f == current_template_chain'[Len(current_template_chain')]
                    m == MatchOf[l].required
                IN  /\ f.context = <<>>
                    /\ IF m # <<>>
                       THEN /\ f.template_name = <<"required from", " ">> \o m[1].text
                            /\ f.location = [file |-> m[1].file,
                                             line |-> <<int(m[1].line_num)>>,
                                             column |-> <<int(m[1].col)>>]
                       ELSE /\ f.template_name = l
                            /\ f.location = [file |-> <<"unknown">>,
                                             line |-> None, column |-> None]]_vars

\* The chain buffer holds a frame of either kind.
C9_Witness ==
    \E a, b \in 1..Len(current_template_chain) :
        /\ current_template_chain[a].template_name = LineRequiredLoose
        /\ current_template_chain[a].location.file = <<"unknown">>
        /\ current_template_chain[b].template_name = <<"required from", " ", "here">>
        /\ current_template_chain[b].location.line = <<1>>

\* C10: when no line of the input is recognized as a primary error line, the
\* parser returns no record, whatever headers, "required from" lines, notes,
\* blank lines and noise the input holds.
C10_NoPrimaryNoRecord ==
    (\A k \in 1..Len(lines) : ~IsPrimary(lines[k]))
    => errors = <<>> /\ pending_error = None

\* A finished parse without a record, of a text with a blank line and a noise
\* line, that has buffered a chain frame and a note.
C10_Witness ==
    /\ pc = "done"
    /\ errors = <<>>
    /\ current_template_chain # <<>>
    /\ current_notes # <<>>
    /\ \E k \in 1..Len(lines) : lines[k] = <<>>
    /\ \E k \in 1..Len(lines) : make_error_pattern(lines[k])

\* C11: a blank line seen while a record is in progress appends that record
\* to the output with the buffered chain, notes and candidates attached and
\* leaves no record in progress and the three buffers empty; seen while no
\* record is in progress it changes neither the output nor the buffers.
C11_BlankLineCloses ==
    [][\A l \in LineSet :
          (Consumed(l) /\ l = <<>>)
          => IF pending_error # None
             THEN /\ Len(errors') = Len(errors) + 1
                  /\ SubSeq(errors', 1, Len(errors)) = errors
                  /\ LET e == errors'[Len(errors')]
                     IN  /\ e.main_error = pending_error[1].main_error
                         /\ e.location = pending_error[1].location
                         /\ e.error_type = pending_error[1].error_type
                         /\ e.template_chain = current_template_chain
                         /\ e.notes = current_notes
                         /\ e.candidates = current_candidates
                  /\ pending_error' = None
                  /\ current_template_chain' = <<>>
                  /\ current_notes' = <<>>
                  /\ current_candidates' = <<>>
             ELSE UNCHANGED <<errors, pending_error, current_template_chain,
                              current_notes, current_candidates>>]_vars

\* A blank line has just closed a record that got a frame, a note and a
\* candidate.
C11_Witness ==
    /\ pc = "parse"
    /\ lines # <<>>
    /\ lines[Len(lines)] = <<>>
    /\ errors # <<>>
    /\ errors[Len(errors)].template_chain # <<>>
    /\ errors[Len(errors)].notes # <<>>
    /\ errors[Len(errors)].candidates # <<>>
    /\ pending_error = None

\* The strings of a record.
RecordTexts(e) ==
    {e.main_error, e.location.file}
    \cup {e.template_chain[k].template_name : k \in 1..Len(e.template_chain)}
    \cup {e.template_chain[k].context : k \in 1..Len(e.template_chain)}
    \cup {e.template_chain[k].location.file : k \in 1..Len(e.template_chain)}
    \cup {e.notes[k][1] : k \in 1..Len(e.notes)}
    \cup {e.notes[k][2].file : k \in 1..Len(e.notes)}
    \cup {e.candidates[k] : k \in 1..Len(e.candidates)}

\* No string of the parser's state holds the "***" of a noise line.
NoNoiseText ==
    \A e \in {errors[n] : n \in 1..Len(errors)}
             \cup {pending_error[n] : n \in 1..Len(pending_error)}
             \cup {[main_error |-> <<>>, location |-> UnknownLocation,
                    template_chain |-> current_template_chain,
                    notes |-> current_notes,
                    candidates |-> current_candidates]} :
        \A t \in RecordTexts(e) : ~In(<<"***">>, t)

\* C12: a build-wrapper noise line changes no parser state (the record in
\* progress, the three buffers and the output stay as they are), and the
\* text of a noise line is in no record field.
C12_NoiseLineIgnored ==
    [][/\ \A l \in LineSet :
             (Consumed(l) /\ make_error_pattern(l))
             => UNCHANGED <<errors, pending_error, current_template_chain,
                            current_notes, current_candidates>>
       /\ NoNoiseText']_vars

\* A noise line was read while a record was in progress and the buffers held
\* a frame and a note.
C12_Witness ==
    /\ pc = "parse"
    /\ lines # <<>>
    /\ make_error_pattern(lines[Len(lines)])
    /\ pending_error # None
    /\ current_template_chain # <<>>
    /\ current_notes # <<>>

\* The text fields of a card.
CardTexts(card) ==
    {card.error_message, card.error_location}
    \cup {card.template_items[k].template_name : k \in 1..Len(card.template_items)}
    \cup {card.template_items[k].template_location : k \in 1..Len(card.template_items)}
    \cup {card.template_items[k].template_context : k \in 1..Len(card.template_items)}
    \cup {card.note_items[k] : k \in 1..Len(card.note_items)}
    \cup {card.note_locations[k] : k \in 1..Len(card.note_locations)}
    \cup {card.candidate_items[k] : k \in 1..Len(card.candidate_items)}

\* The tokens that hold '<', '>' or '&' as markup.
MarkupTokens == {"<T>&"}

HasMarkup(e) == \E t \in RecordTexts(e) : \E k \in 1..Len(t) : t[k] \in MarkupTokens

\* C13: in the rendered document no text taken from a record (primary
\* message, location file names, frame labels and contexts, note messages,
\* candidate strings) holds '<', '>' or '&' in unescaped form.
C13_RecordTextEscaped ==
    pc = "rendered" =>
        \A c \in 1..Len(cards) :
            \A t \in CardTexts(cards[c]) :
                \A k \in 1..Len(t) : t[k] \notin MarkupTokens

\* A rendered card shows the escaped form of markup that its record holds in
\* the message, the location file name and a frame label.
C13_Witness ==
    /\ pc = "rendered"
    /\ \E c \in 1..Len(cards) :
          /\ In(<<"<T>&">>, errors[c].main_error)
          /\ In(<<"&lt;T&gt;&amp;">>, cards[c].error_message)
          /\ In(<<"<T>&">>, errors[c].location.file)
          /\ In(<<"&lt;T&gt;&amp;">>, cards[c].error_location)
          /\ \E k \in 1..Len(cards[c].template_items) :
                /\ In(<<"<T>&">>, errors[c].template_chain[k].template_name)
                /\ In(<<"&lt;T&gt;&amp;">>,
                      cards[c].template_items[k].template_name)

\* C20: generate_html reports error_count as the number of records,
\* template_errors as the number of records with a non-empty chain, and the
\* average chain length as the sum of the chain lengths divided by the
\* number of records, which is 0 for no records.
C20_Statistics ==
    pc = "rendered" =>
        LET d == stats[1]
            withChain == {k \in 1..Len(errors) : errors[k].template_chain # <<>>}
            frames == {<<k, j>> \in (1..Len(errors)) \X (1..MaxLines) :
                          j <= Len(errors[k].template_chain)}
        IN  /\ d.error_count = Len(errors)
            /\ d.template_errors = Cardinality(withChain)
            /\ d.avg_chain_length[2] > 0
            /\ d.avg_chain_length[1] * (IF errors = <<>> THEN 1 ELSE Len(errors))
                   = (IF errors = <<>> THEN 0 ELSE Cardinality(frames))
                     * d.avg_chain_length[2]

\* A document over two records, one with a chain of two frames and one with
\* none: 2 errors, 1 template error, average 2/2.
C20_Witness ==
    /\ pc = "rendered"
    /\ Len(errors) = 2
    /\ stats[1].template_errors = 1
    /\ stats[1].avg_chain_length = <<2, 2>>

\* A document over no records.
C20_WitnessEmpty ==
    /\ pc = "rendered"
    /\ errors = <<>>
    /\ stats[1].avg_chain_length = <<0, 1>>

\* C14: the status main returns when it catches an unexpected failure is
\* non-zero and differs from the status it returns for 'no errors found'.
C14_FailureStatusDistinct ==
    [][(printed' # printed /\ printed'[Len(printed')] = FailedMessage)
       => (status' # <<0>> /\ status' # <<StatusNoErrors>>)]_vars

\* C15: no failure of a run leaves main as an uncaught exception; every one
\* ends with a printed message and a non-zero status.
C15_NoUncaughtException ==
    /\ pc # "raised"
    /\ pc = "returned" => (printed # <<>> /\ status # None)
    /\ (pc = "returned" /\ ~written) => status # <<0>>

C16_WitnessEmpty ==
    /\ pc = "returned"
    /\ lines = << <<>> >>
    /\ printed = <<NoErrorsMessage>>
    /\ ~written
    /\ status # None

NoNoiseInOutput ==
    /\ \A n \in 1..Len(errors) :
          \A t \in RecordTexts(errors[n]) : ~In(<<"***">>, t)
    /\ \A c \in 1..Len(cards) :
          \A t \in CardTexts(cards[c]) : ~In(<<"***">>, t)

\* C18 as stated: a primary error line, two strict note lines of which
\* exactly one holds 'candidate', a blank line and a noise line yield exactly
\* one record with 1 entry in notes and 1 entry in candidates, and the noise
\* text is in no field of the output.
C18_OneNoteOneCandidate ==
    (text \in NoteTexts /\ pc \in {"done", "rendered"})
    => /\ Len(errors) = 1
       /\ Len(errors[1].notes) = 1
       /\ Len(errors[1].candidates) = 1
       /\ NoNoiseInOutput

\* C18 amended: the record's notes hold both notes, the candidate note
\* included, in input order; its candidates hold the candidate note's
\* message; the rendered notes section shows the other note only when its
\* message holds 'candidate' in no letter case; the noise text is in no field
\* of the output.
C18_TwoNotesOneCandidate ==
    (text \in NoteTexts /\ pc \in {"done", "rendered"})
    => /\ Len(errors) = 1
       /\ errors[1].main_error = MatchOf[text[1]].error[1].text
       /\ Len(errors[1].notes) = 2
       /\ \A k \in 1..2 :
             errors[1].notes[k][1] = MatchOf[text[k + 1]].note[1].text
       /\ errors[1].candidates = <<MatchOf[LineNoteCandidate].note[1].text>>
       /\ NoNoiseInOutput
       /\ pc = "rendered"
          => /\ Len(cards[1].candidate_items) = 1
             /\ Len(cards[1].note_items)
                    = (IF LineNote \in {text[2], text[3]} THEN 1 ELSE 0)

\* The five lines are parsed and rendered: one record, two notes, one
\* candidate, one note shown.
C18_Witness ==
    /\ text \in NoteTexts
    /\ pc = "rendered"
    /\ Len(lines) = 5
    /\ Len(errors) = 1
    /\ Len(errors[1].notes) = 2
    /\ Len(errors[1].candidates) = 1
    /\ Len(cards[1].note_items) = 1

\* The frame of a header line.
HeaderFrame(l, level) ==
    LET m == MatchOf[l].template[1]
    IN  TemplateInstantiation(m.template_name, parse_location(m.location_str),
                              m.template_params, level)

\* C19: n >= 1 consecutive instantiation headers followed by one primary
\* error line yield exactly one record, whose chain has length n with the
\* frames in header order and depths 0..n-1.
C19_HeadersAttach ==
    (text \in HeaderTexts /\ pc \in {"done", "rendered"})
    => /\ Len(errors) = 1
       /\ errors[1].main_error = MatchOf[text[Len(text)]].error[1].text
       /\ Len(errors[1].template_chain) = Len(text) - 1
       /\ \A k \in 1..(Len(text) - 1) :
             errors[1].template_chain[k] = HeaderFrame(text[k], k - 1)

\* Three headers, not all the same, and a primary error line are parsed: one
\* record with a chain of three.
C19_Witness ==
    /\ text \in HeaderTexts
    /\ pc = "done"
    /\ Len(text) = MaxHeaders + 1
    /\ text[1] # text[2]
    /\ Len(errors) = 1
    /\ Len(errors[1].template_chain) = MaxHeaders

\* C21: a record that is in the output is never changed, removed or moved
\* by a later line or by the flush: the output only grows by appending.
C21_OutputOnlyGrows ==
    [][/\ Len(errors') >= Len(errors)
       /\ SubSeq(errors', 1, Len(errors)) = errors
       /\ Len(errors') <= Len(errors) + 1]_vars

\* A record is in the output and lines after it have opened a record and
\* buffered a note.
C21_Witness ==
    /\ pc = "parse"
    /\ errors # <<>>
    /\ pending_error # None
    /\ current_notes # <<>>

\* l reaches the note branch and does not match note_pattern there.
IsLooseNote(l) == BranchOf[l] = "note" /\ MatchOf[l].note = <<>>

\* C22: a line that reaches the note branch without the strict note form
\* appends, when it matches 'note: candidate...: <rest>', only <rest> to the
\* buffered candidates and nothing to the notes; otherwise it appends the
\* whole stripped line to the notes with file 'unknown' and no line and
\* column.  It is never dropped, and nothing else changes.
C22_LooseNoteFallback ==
    [][\A l \in LineSet :
          (Consumed(l) /\ IsLooseNote(l))
          => /\ IF candidate_pattern(l) # <<>>
                THEN /\ current_candidates'
                            = Append(current_candidates,
                                     candidate_pattern(l)[1].text)
                     /\ candidate_pattern(l)[1].text # l
                     /\ ~In(<<"note">>, candidate_pattern(l)[1].text)
                     /\ current_notes' = current_notes
                ELSE /\ current_notes'
                            = Append(current_notes,
                                     <<l, [file |-> <<"unknown">>,
                                           line |-> None, column |-> None]>>)
                     /\ current_candidates' = current_candidates
             /\ UNCHANGED <<errors, pending_error, current_template_chain>>]_vars

\* Both fallbacks have acted on an open record: the candidates hold the
\* description 'void f()' alone and the notes hold a whole line.
C22_Witness ==
    /\ pc = "parse"
    /\ pending_error # None
    /\ current_candidates = << <<"void f()">> >>
    /\ current_notes = << <<LineNoteLoose, UnknownLocation>> >>

\* The places of the colons of s.
Colons(s) == {p \in 1..Len(s) : s[p] = ":"}

\* The p-th colon-separated part of s, for p up to the number of colons.
Part(s, p) ==
    LET before == IF p = 1 THEN 0
                  ELSE CHOOSE c \in Colons(s) :
                           Cardinality({d \in Colons(s) : d < c}) = p - 2
        after == CHOOSE c \in Colons(s) :
                     Cardinality({d \in Colons(s) : d < c}) = p - 1
    IN  SubSeq(s, before + 1, after - 1)

\* The p-th part when it is the last one.
LastPart(s, p) ==
    LET before == CHOOSE c \in Colons(s) :
                      Cardinality({d \in Colons(s) : d < c}) = p - 2
    IN  SubSeq(s, before + 1, Len(s))

\* s is one run of digits with blanks around it, and d is its value.
IsNumeral(s, d) ==
    \E p \in 1..Len(s) :
        /\ s[p] \in Digits
        /\ int(s[p]) = d
        /\ \A q \in 1..Len(s) : q # p => s[q] = " "

\* The second and third parts of s.
Second(s) == Part(s, 2)

Third(s) == IF Cardinality(Colons(s)) = 2 THEN LastPart(s, 3) ELSE Part(s, 3)

\* C23: parse_location returns, for a string of at least three
\* colon-separated parts whose second and third parts are integers, the first
\* part as file and the two integers as line and column, and for every other
\* string the whole string as file with line and column absent.
C23_ParseLocationTotal ==
    pc = "located" =>
        /\ cloc # None
        /\ LET s == cloc_str
               r == cloc[1]
           IN  IF /\ Cardinality(Colons(s)) >= 2
                  /\ \E d \in 0..2 : IsNumeral(Second(s), d)
                  /\ \E d \in 0..2 : IsNumeral(Third(s), d)
               THEN /\ r.file = Part(s, 1)
                    /\ r.line # None /\ IsNumeral(Second(s), r.line[1])
                    /\ r.column # None /\ IsNumeral(Third(s), r.column[1])
               ELSE r = [file |-> s, line |-> None, column |-> None]

\* parse_location has returned file, line and column of 'a.cpp:1:1'.
C23_Witness ==
    /\ pc = "located"
    /\ cloc_str = <<"a.cpp", ":", "1", ":", "1">>
    /\ cloc = << [file |-> <<"a.cpp">>, line |-> <<1>>, column |-> <<1>>] >>

\* parse_location has returned the whole of 'a.cpp:1:x' as the file.
C23_WitnessFallback ==
    /\ pc = "located"
    /\ cloc_str = <<"a.cpp", ":", "1", ":", "x">>
    /\ cloc = << [file |-> cloc_str, line |-> None, column |-> None] >>

\* l is not blank, not noise, not an instantiation header, and holds none
\* of 'required from', 'error:' and 'note:'.
IsUnclassified(l) ==
    /\ l # <<>>
    /\ ~make_error_pattern(l)
    /\ MatchOf[l].template = <<>>
    /\ ~In(<<"required from">>, l)
    /\ ~In(<<"error", ":">>, l)
    /\ ~In(<<"note", ":">>, l)

\* C24: a line of no classification leaves the record in progress, the three
\* buffers and the output as they are.
C24_OtherLineIgnored ==
    [][\A l \in LineSet :
          (Consumed(l) /\ IsUnclassified(l))
          => UNCHANGED <<errors, pending_error, current_template_chain,
                         current_notes, current_candidates>>]_vars

\* A line of no classification was read while a record was in progress and
\* a note was buffered; the record is still in progress.
C24_Witness ==
    /\ pc = "parse"
    /\ lines # <<>>
    /\ IsUnclassified(lines[Len(lines)])
    /\ pending_error # None
    /\ current_notes # <<>>
    /\ errors = <<>>

\* The note entries that the line l adds, by the branch it takes.
NoteOf(l) ==
    IF BranchOf[l] # "note" THEN <<>>
    ELSE IF MatchOf[l].note # <<>>
    THEN LET m == MatchOf[l].note[1]
         IN  << <<m.text, [file |-> m.file, line |-> <<int(m.line_num)>>,
                           column |-> <<int(m.col)>>]>> >>
    ELSE IF MatchOf[l].candidate # <<>> THEN <<>>
    ELSE << <<l, [file |-> <<"unknown">>, line |-> None, column |-> None]>> >>

\* The candidate entries that the line l adds.
CandidateOf(l) ==
    IF BranchOf[l] # "note" THEN <<>>
    ELSE IF MatchOf[l].note # <<>>
    THEN (IF In(<<"candidate">>, MatchOf[l].note[1].text)
          THEN <<MatchOf[l].note[1].text>> ELSE <<>>)
    ELSE IF MatchOf[l].candidate # <<>>
    THEN <<MatchOf[l].candidate[1].text>>
    ELSE <<>>

\* The message of l when it is recognized as a primary error line.
PrimaryOf(l) == IF IsPrimary(l) THEN <<MatchOf[l].error[1].text>> ELSE <<>>

RECURSIVE InInputOrder(_, _, _)
\* What the lines ls[k..] add, in the order of the lines; Of is one of the
\* three tables below.
InInputOrder(Of, ls, k) ==
    IF k > Len(ls) THEN <<>> ELSE Of[ls[k]] \o InInputOrder(Of, ls, k + 1)

NoteOfLine == [l \in AllLines |-> NoteOf(l)]

CandidateOfLine == [l \in AllLines |-> CandidateOf(l)]

PrimaryOfLine == [l \in AllLines |-> PrimaryOf(l)]

RECURSIVE NotesOfRecords(_, _)
NotesOfRecords(errs, k) ==
    IF k > Len(errs) THEN <<>>
    ELSE errs[k].notes \o NotesOfRecords(errs, k + 1)

RECURSIVE CandidatesOfRecords(_, _)
CandidatesOfRecords(errs, k) ==
    IF k > Len(errs) THEN <<>>
    ELSE errs[k].candidates \o CandidatesOfRecords(errs, k + 1)

\* The buffers hold entries of no record yet, unless the flush after the
\* loop has just attached them.
Flushed == pc = "done" /\ pending_error # None

\* C25: the notes and the candidates of the records, and after them the
\* buffered ones, are the entries of the input lines in input order, each
\* line's entry once per occurrence of the line; the records are in the
\* order of their primary error lines.
C25_InputOrderKept ==
    pc \in {"parse", "done"} =>
        /\ NotesOfRecords(errors, 1) \o (IF Flushed THEN <<>> ELSE current_notes)
               = InInputOrder(NoteOfLine, lines, 1)
        /\ CandidatesOfRecords(errors, 1)
               \o (IF Flushed THEN <<>> ELSE current_candidates)
               = InInputOrder(CandidateOfLine, lines, 1)
        /\ [k \in 1..Len(errors) |-> errors[k].main_error]
               \o (IF pc = "parse" /\ pending_error # None
                   THEN <<pending_error[1].main_error>> ELSE <<>>)
               = InInputOrder(PrimaryOfLine, lines, 1)

\* One record holds the same note twice, from two equal lines.
C25_Witness ==
    /\ pc = "done"
    /\ Len(errors) = 1
    /\ Len(errors[1].notes) = 2
    /\ errors[1].notes[1] = errors[1].notes[2]

\* One record holds two different notes in the order of their lines.
C25_WitnessOrder ==
    /\ pc = "done"
    /\ lines = <<LineError, LineNote, LineNoteCandidate>>
    /\ Len(errors) = 1
    /\ errors[1].notes[1][1] = <<"void f()">>
    /\ errors[1].notes[2][1] = <<"candidate", ":", " ", "<T>&">>

\* C26: parse_error_text ends on every text, after one pass: each turn of
\* the loop, whatever branch the line takes, moves on by exactly one line,
\* the next of the text, and the loop ends when all lines are read.
C26_OnePassTerminates ==
    /\ <>(pc = "done" /\ lines = text)
    /\ [][pc = "parse"
          => IF pc' = "parse"
             THEN lines' = Append(lines, text[Len(lines) + 1])
             ELSE lines' = lines /\ lines = text /\ pc' = "done"]_vars

\* The loop has ended on a text of a noise line and a line of no pattern.
C26_Witness ==
    /\ pc = "done"
    /\ lines = text
    /\ Len(text) = MaxPassLines
    /\ make_error_pattern(text[1])
    /\ IsUnclassified(text[Len(text)])

\* What a step does to the parser's state, by kind.
AddsFrame == Len(current_template_chain') > Len(current_template_chain)

AddsNote ==
    \/ Len(current_notes') > Len(current_notes)
    \/ Len(current_candidates') > Len(current_candidates)

ClosesRecord == Len(errors') > Len(errors)

\* A record is in progress that was not before, or that follows one that the
\* step has closed.
OpensRecord ==
    pending_error' # None /\ (pending_error' # pending_error \/ ClosesRecord)

\* l is of the strict primary error form and no earlier test takes it.
IsStrictPrimary(l) ==
    /\ ~make_error_pattern(l)
    /\ MatchOf[l].template = <<>>
    /\ ~In(<<"required from">>, l)
    /\ MatchOf[l].error # <<>>

\* C27: a line triggers the action of at most one classification, the first
\* in the order noise, blank, header, 'required from', primary error, note.
\* A noise line does nothing; a header or a line holding 'required from'
\* adds one frame and neither opens or closes a record nor adds a note,
\* whatever else it holds; a strict primary error line opens a record and
\* adds no note, also when its message holds 'note:'.
C27_FirstMatchWins ==
    [][\A l \in LineSet :
          Consumed(l)
          => /\ ~(AddsFrame /\ OpensRecord)
             /\ ~(AddsFrame /\ AddsNote)
             /\ ~(OpensRecord /\ AddsNote)
             /\ make_error_pattern(l)
                => ~AddsFrame /\ ~OpensRecord /\ ~AddsNote /\ ~ClosesRecord
             /\ (l = <<>>) => ~AddsFrame /\ ~OpensRecord /\ ~AddsNote
             /\ (~make_error_pattern(l)
                 /\ (MatchOf[l].template # <<>> \/ In(<<"required from">>, l)))
                => /\ Len(current_template_chain')
                          = Len(current_template_chain) + 1
                   /\ UNCHANGED <<errors, pending_error, current_notes,
                                  current_candidates>>
             /\ IsStrictPrimary(l)
                => /\ OpensRecord
                   /\ pending_error'[1].main_error = MatchOf[l].error[1].text
                   /\ ~AddsNote /\ ~AddsFrame]_vars

\* A line holding 'required from' and 'error:' has added a frame, and a
\* strict primary error line whose message holds 'note:' has opened a record
\* with no note.
C27_Witness ==
    /\ pc = "parse"
    /\ lines = <<LineRequiredLoose, LineError2>>
    /\ Len(current_template_chain) = 1
    /\ current_template_chain[1].template_name = LineRequiredLoose
    /\ pending_error # None
    /\ In(<<"note", ":">>, pending_error[1].main_error)
    /\ current_notes = <<>>
    /\ errors = <<>>

\* The places of lines that hold a recognized primary error line.
PrimaryPlaces == {k \in 1..Len(lines) : IsPrimary(lines[k])}

\* C28: parse_error_text returns as many records as lines were recognized as
\* primary error lines: while the loop runs, the records of the output and
\* the one in progress are one per such line, and the flush after the loop
\* appends the one in progress.
C28_OneRecordPerPrimary ==
    /\ pc = "parse"
       => Len(errors) + (IF pending_error # None THEN 1 ELSE 0)
              = Cardinality(PrimaryPlaces)
    /\ pc = "done" => Len(errors) = Cardinality(PrimaryPlaces)

\* Two records were returned for three lines holding 'error:', of which two
\* are primary error lines; one record was closed by the second primary
\* error line, the other by the end of the input.
C28_Witness ==
    /\ pc = "done"
    /\ lines = <<LineError, LineNoteError, LineError2>>
    /\ Len(errors) = 2

\* C29: every note of a record is shown in the rendered block of the record,
\* in the notes section or in the candidates section.
C29_EveryNoteShown ==
    pc = "rendered" =>
        \A c \in 1..Len(errors) :
            \A k \in 1..Len(errors[c].notes) :
                LET shown == html_escape(errors[c].notes[k][1])
                IN  \/ \E a \in 1..Len(cards[c].note_items) :
                          cards[c].note_items[a] = shown
                    \/ \E b \in 1..Len(cards[c].candidate_items) :
                          cards[c].candidate_items[b] = shown

\* f"{location.line or '?'}" as the claim has it: "?" for None only
Shown(n) == IF n = None THEN "?" ELSE ToString(n[1])

\* The text of a location as the claim has it.
ShownLocation(loc) ==
    html_escape(loc.file) \o <<":", Shown(loc.line), ":", Shown(loc.column)>>

\* C30: the rendered location of a record, a frame or a note shows a line
\* or column that is present as its number, 0 included, and '?' only for
\* one that is absent.
C30_ZeroIsShown ==
    pc = "rendered" =>
        \A c \in 1..Len(errors) :
            /\ cards[c].error_location = ShownLocation(errors[c].location)
            /\ \A k \in 1..Len(errors[c].template_chain) :
                  cards[c].template_items[k].template_location
                      = ShownLocation(errors[c].template_chain[k].location)
            /\ \A k \in 1..Len(errors[c].notes) :
                  ~In(<<"candidate">>, lower(errors[c].notes[k][1]))
                  => \E a \in 1..Len(cards[c].note_locations) :
                        cards[c].note_locations[a]
                            = ShownLocation(errors[c].notes[k][2])

====
